---- MODULE Spec2Model ----
(***************************************************************************)
(* A model of the lyric synchronisation and translation pipeline of        *)
(* SpotifyLyricsTranslator (src/app.py): the 500 ms poll loop              *)
(* (update_display), the lyric fetch (update_lyrics), the translation      *)
(* threads (translate_words / translate_line), the bounded translation     *)
(* cache (lyrics_cache, save_cache) and the current-line resolution        *)
(* (update_current_lyric).                                                 *)
(*                                                                         *)
(* Texts are modelled as small integers: a lyric line's words are a        *)
(* positive number, the empty string is 0.  A time cell "M:SS" is the pair *)
(* <<M, SS>> that ms_to_min_sec formats and update_current_lyric parses.   *)
(***************************************************************************)
EXTENDS Integers, Sequences, FiniteSets, TLC

(***************************************************************************)
(* Bounds and program constants.                                           *)
(***************************************************************************)
\* MAX_CACHE_SIZE is 1000 in src/app.py:55; the model scales it down so that
\* a full cache is reachable.
MAX_CACHE_SIZE == 2
\* ThreadPoolExecutor(max_workers=4), src/app.py:517
max_workers == 4
\* the number of translate_words threads alive at the same time, in a
\* session over LibraryTracks and in a session over Tracks
MaxThreads == 2
MaxSoloThreads == 1

NoSong == 0
EmptyText == 0

\* Track ids the playback client reports.  Track 4 has no synced lyrics.
Tracks == 1..4

\* Track ids of a listening session over more tracks with lyrics than the
\* cache holds.
LibraryTracks == {1, 2, 3}

\* Track ids of a session with a track of more lines than the pool has
\* workers.
PoolTracks == {2, 5}

\* The time-stamped lines the lyrics source holds for a track
\* (lyrics['lyrics']['lines']); <<>> when it holds none.
LyricsOf(id) ==
    CASE id = 1 -> << [startTimeMs |-> 1000, words |-> 11],
                      [startTimeMs |-> 1500, words |-> 12] >>
      [] id = 2 -> << [startTimeMs |-> 0,    words |-> 21] >>
      [] id = 3 -> << [startTimeMs |-> 0,    words |-> 31] >>
      [] id = 5 -> << [startTimeMs |-> 0,    words |-> 51],
                      [startTimeMs |-> 1000, words |-> 52],
                      [startTimeMs |-> 2000, words |-> 53],
                      [startTimeMs |-> 3000, words |-> 54],
                      [startTimeMs |-> 4000, words |-> 55] >>
      [] OTHER  -> << >>

\* progress_ms values the playback client reports for a playing track
Positions == {500, 1200}

\* What sp.get_lyrics(song_id) returns for a track when it returns a
\* well-formed response: the lines with their language, or no lyrics.
LyricsOutcomes(id) == IF LyricsOf(id) # << >> THEN {"ok"} ELSE {"none"}

\* GoogleTranslator.translate on a text that the service accepts
Translate(text) == text + 100


(***************************************************************************)
(* Pure helpers.                                                           *)
(***************************************************************************)
\* ms_to_min_sec, src/app.py:498-503: "M:SS" as <<M, SS>>
ms_to_min_sec(ms) == << ms \div 60000, (ms % 60000) \div 1000 >>

\* the parse of a time cell in update_current_lyric, src/app.py:489
ParseTime(cell) == cell[1] * 60000 + cell[2] * 1000

Max(S) == CHOOSE x \in S : \A y \in S : y <= x

SeqToSet(s) == { s[i] : i \in 1..Len(s) }

Min(S) == CHOOSE x \in S : \A y \in S : x <= y

(***************************************************************************)
(* The tree view: a sequence of rows (Time, Original Lyrics, Translated    *)
(* Lyrics).                                                                *)
(***************************************************************************)
\* self.tree.insert("", "end", values=(ms_to_min_sec(startTimeMs), words, ""))
\* for every fetched line, src/app.py:548-549
LyricRows(lines) ==
    [ i \in 1..Len(lines) |->
        [ time       |-> ms_to_min_sec(lines[i].startTimeMs),
          words      |-> lines[i].words,
          translated |-> EmptyText ] ]

\* the placeholder text "(No lyrics available)", src/app.py:557
NoLyricsText == 999

\* values=("0:00", "(No lyrics available)", ""), src/app.py:557
PlaceholderRows ==
    << [ time |-> << 0, 0 >>, words |-> NoLyricsText, translated |-> EmptyText ] >>

\* the loop of update_current_lyric, src/app.py:486-493: the last row of the
\* leading run of rows whose parsed time cell is <= current_position
\* (0 stands for None)
LastIndex(rows, current_position) ==
    Max({ k \in 0..Len(rows) :
            \A j \in 1..k : ParseTime(rows[j].time) <= current_position })

\* update_current_lyric, src/app.py:484-496: the selection after the call
update_current_lyric(rows, sel, current_position) ==
    IF LastIndex(rows, current_position) # 0
        THEN LastIndex(rows, current_position)
        ELSE sel

\* the entries of translated_lyrics that a row matches, src/app.py:565-566
MatchesOf(row, translated_lyrics) ==
    { j \in 1..Len(translated_lyrics) :
        /\ ms_to_min_sec(translated_lyrics[j].startTimeMs) = row.time
        /\ translated_lyrics[j].words = row.words }

\* the first loop of update_translations, src/app.py:561-568
SetMatched(rows, translated_lyrics) ==
    [ i \in 1..Len(rows) |->
        IF MatchesOf(rows[i], translated_lyrics) # {}
            THEN [ rows[i] EXCEPT !.translated =
                     translated_lyrics[Min(MatchesOf(rows[i], translated_lyrics))].translated ]
            ELSE rows[i] ]

\* update_translations, src/app.py:560-572: the rows after the call
update_translations(rows, translated_lyrics) ==
    IF Len(rows) = 0
        THEN rows
        ELSE [ SetMatched(rows, translated_lyrics)
                 EXCEPT ![1].translated = translated_lyrics[1].translated ]

(***************************************************************************)
(* The translation cache: a Python dict, which keeps its keys in insertion *)
(* order, as the sequence of its items.                                    *)
(***************************************************************************)
CacheKeys(cache) == { cache[i].id : i \in 1..Len(cache) }

\* list(cache): the keys in insertion order
KeySeq(cache) == [ i \in 1..Len(cache) |-> cache[i].id ]

CacheIndex(cache, id) == CHOOSE i \in 1..Len(cache) : cache[i].id = id

\* a read that returns the value of the oldest key present
CacheGetOldest(cache, id) == cache[1].value

\* self.lyrics_cache[song_id], src/app.py:552
CacheGet(cache, id) == cache[CacheIndex(cache, id)].value

\* a dict whose assignment to a present key moves the key to the end
CacheSetMoveToEnd(cache, id, value) ==
    Append(SelectSeq(cache, LAMBDA e : e.id # id), [ id |-> id, value |-> value ])

\* an insertion that writes the value under the oldest key present
CacheSetOldestKey(cache, id, value) ==
    IF Len(cache) > 0
        THEN [ cache EXCEPT ![1].value = value ]
        ELSE Append(cache, [ id |-> id, value |-> value ])

\* self.lyrics_cache[song_id] = translated_lyrics, src/app.py:520
CacheSet(cache, id, value) ==
    IF id \in CacheKeys(cache)
        THEN [ cache EXCEPT ![CacheIndex(cache, id)].value = value ]
        ELSE Append(cache, [ id |-> id, value |-> value ])

\* len(self.lyrics_cache) > MAX_CACHE_SIZE, src/app.py:522
NeedsEviction(cache) == Len(cache) > MAX_CACHE_SIZE

\* the newest key instead of the oldest
NewestKey(cache) == cache[Len(cache)].id

\* next(iter(self.lyrics_cache)), src/app.py:523
FirstKey(cache) == cache[1].id

\* self.lyrics_cache.pop(key) for a key that is present, src/app.py:523
CachePop(cache, key) ==
    SelectSeq(cache, LAMBDA e : e.id # key)

\* translate_line without the fallback to the original text
translate_line_no_fallback(line, ok) ==
    [ startTimeMs |-> line.startTimeMs,
      words       |-> line.words,
      translated  |-> IF ok THEN Translate(line.words) ELSE EmptyText ]

\* translate_line, src/app.py:505-512; ok is whether translator.translate
\* returned
translate_line(line, ok) ==
    [ startTimeMs |-> line.startTimeMs,
      words       |-> line.words,
      translated  |-> IF ok THEN Translate(line.words) ELSE line.words ]

(***************************************************************************)
(* State.                                                                  *)
(***************************************************************************)
VARIABLES
    current_song_id,      \* self.current_song_id (NoSong is None)
    tree,                 \* the rows of self.tree
    selection,            \* the index of the selected row of self.tree, 0 if none
    position,             \* the progress shown by time_label and progress_var
    lyrics_cache,         \* self.lyrics_cache
    persisted,            \* the keys of the dict pickled in CACHE_FILE, in order
    pollScheduled,        \* root.after(500, self.update_display) is pending
    threads,              \* the translate_words threads
    unavailable,          \* history: ids for which get_lyrics returned no lyrics
    gui,                  \* what the application shows: "auth" while setup_gui
                          \* runs, "login" (the cookie dialog), "main" (the main
                          \* window, initialize_main_gui completed), "stalled"
    cache_file            \* CACHE_FILE as found at startup: "missing", "corrupt"
                          \* or "dict" (a pickled dict whose keys are persisted)

vars == << current_song_id, tree, selection, position, lyrics_cache,
           persisted, pollScheduled, threads, unavailable, gui, cache_file >>

\* what the poll loop owns
tracker == << current_song_id, tree, selection, position, pollScheduled,
             unavailable >>

Slots == 1..MaxThreads

Idle == [ pc |-> "idle", song_id |-> NoSong, status |-> << >>,
          results |-> << >>, key |-> NoSong ]

\* a tick that runs the translate calls itself and returns with every line
\* translated
NewThreadJoined(song_id) ==
    [ pc      |-> "pool",
      song_id |-> song_id,
      status  |-> [ i \in 1..Len(LyricsOf(song_id)) |-> "done" ],
      results |-> [ i \in 1..Len(LyricsOf(song_id)) |->
                      translate_line(LyricsOf(song_id)[i], TRUE) ],
      key     |-> NoSong ]

\* threading.Thread(target=self.translate_words, args=(lyrics_data, song_name,
\* song_id, self.update_translations)).start(), src/app.py:554-555
NewThread(song_id) ==
    [ pc      |-> "title",
      song_id |-> song_id,
      status  |-> [ i \in 1..Len(LyricsOf(song_id)) |-> "new" ],
      results |-> << >>,
      key     |-> NoSong ]

SoloSlots == 1..MaxSoloThreads

FreeSlots(slots) == { t \in slots : threads[t].pc = "idle" }

\* initialize_main_gui, src/app.py:412-426, with no CACHE_FILE on disk
Init ==
    /\ gui = "main"
    /\ cache_file = "missing"
    /\ current_song_id = NoSong
    /\ tree = << >>
    /\ selection = 0
    /\ position = 0
    /\ lyrics_cache = << >>
    /\ persisted = << >>
    /\ pollScheduled = TRUE
    /\ threads = [ t \in Slots |-> Idle ]
    /\ unavailable = {}

(***************************************************************************)
(* update_display, src/app.py:444-482, one action per outcome of the calls *)
(* it makes.                                                               *)
(***************************************************************************)
\* the history of get_lyrics(id) returning outcome
NoteQuery(id, outcome) ==
    unavailable' = IF outcome = "none" THEN unavailable \cup {id} ELSE unavailable

\* get_current_playback_position returns (None, 0): get_current_song raised
\* or returned nothing (src/app.py:435-442); the else branch
\* (src/app.py:475-480) and root.after (src/app.py:482)
TickNothingPlaying ==
    /\ pollScheduled
    /\ position' = 0
    /\ UNCHANGED << gui, cache_file, current_song_id, tree, selection, lyrics_cache, persisted,
                    pollScheduled, threads, unavailable >>

\* the playing track is the tracked one: no update_lyrics (src/app.py:469),
\* update_current_lyric (src/app.py:474)
TickSameSong(song_id, current_position) ==
    /\ pollScheduled
    /\ song_id = current_song_id
    /\ position' = current_position
    /\ selection' = update_current_lyric(tree, selection, current_position)
    /\ UNCHANGED << gui, cache_file, current_song_id, tree, lyrics_cache, persisted,
                    pollScheduled, threads, unavailable >>

\* the part of update_display before update_lyrics, src/app.py:445-470
SongChanged(song_id, current_position) ==
    /\ pollScheduled
    /\ song_id # current_song_id
    /\ position' = current_position
    /\ current_song_id' = song_id

\* update_lyrics: sp.get_current_song() raises or returns None
\* (src/app.py:530-531); the exception leaves update_display before
\* root.after, src/app.py:482
TickRequeryFails(song_id, current_position) ==
    /\ SongChanged(song_id, current_position)
    /\ pollScheduled' = FALSE
    /\ UNCHANGED << gui, cache_file, tree, selection, lyrics_cache, persisted, threads,
                    unavailable >>

\* update_lyrics: sp.get_lyrics(song_id) raises, src/app.py:534, whatever
\* track the second get_current_song reported
TickLyricsQueryRaises(song_id, current_position) ==
    /\ SongChanged(song_id, current_position)
    /\ pollScheduled' = FALSE
    /\ UNCHANGED << gui, cache_file, tree, selection, lyrics_cache, persisted, threads,
                    unavailable >>

\* update_lyrics: the response has lines but no language: the tree is
\* cleared (src/app.py:541), then lyrics['lyrics']['language'] raises
\* (src/app.py:544)
TickLyricsMalformed(song_id, current_position) ==
    /\ SongChanged(song_id, current_position)
    /\ tree' = << >>
    /\ selection' = 0
    /\ pollScheduled' = FALSE
    /\ UNCHANGED << gui, cache_file, lyrics_cache, persisted, threads, unavailable >>

\* update_lyrics: no lyrics: the placeholder row (src/app.py:556-557), then
\* update_current_lyric (src/app.py:474)
TickNoLyrics(song_id, current_position, id2) ==
    /\ SongChanged(song_id, current_position)
    /\ "none" \in LyricsOutcomes(id2)
    /\ NoteQuery(id2, "none")
    /\ tree' = PlaceholderRows
    /\ selection' = update_current_lyric(PlaceholderRows, 0, current_position)
    /\ UNCHANGED << gui, cache_file, lyrics_cache, persisted, pollScheduled, threads >>

\* update_lyrics: lyrics fetched and the id is a key of the cache,
\* src/app.py:543-552
TickLyricsCached(song_id, current_position, id2) ==
    /\ SongChanged(song_id, current_position)
    /\ "ok" \in LyricsOutcomes(id2)
    /\ NoteQuery(id2, "ok")
    /\ id2 \in CacheKeys(lyrics_cache)
    /\ tree' = update_translations(LyricRows(LyricsOf(id2)),
                                   CacheGet(lyrics_cache, id2))
    /\ selection' = update_current_lyric(tree', 0, current_position)
    /\ UNCHANGED << gui, cache_file, lyrics_cache, persisted, pollScheduled, threads >>

\* update_lyrics: lyrics fetched and the id is no key of the cache: a
\* translate_words thread is started, src/app.py:543-555
TickLyricsTranslate(song_id, current_position, id2, slots) ==
    /\ SongChanged(song_id, current_position)
    /\ "ok" \in LyricsOutcomes(id2)
    /\ NoteQuery(id2, "ok")
    /\ id2 \notin CacheKeys(lyrics_cache)
    /\ FreeSlots(slots) # {}
    /\ tree' = LyricRows(LyricsOf(id2))
    /\ threads' = [ threads EXCEPT ![Min(FreeSlots(slots))] = NewThread(id2) ]
    /\ selection' = update_current_lyric(tree', 0, current_position)
    /\ UNCHANGED << gui, cache_file, lyrics_cache, persisted, pollScheduled >>

update_display ==
    \/ TickNothingPlaying
    \/ \E song_id \in Tracks, current_position \in Positions :
         \/ TickSameSong(song_id, current_position)
         \/ TickRequeryFails(song_id, current_position)
         \/ TickLyricsQueryRaises(song_id, current_position)
         \/ TickLyricsMalformed(song_id, current_position)
         \/ \E id2 \in Tracks :
              \/ TickNoLyrics(song_id, current_position, id2)
              \/ TickLyricsCached(song_id, current_position, id2)
              \/ TickLyricsTranslate(song_id, current_position, id2, SoloSlots)

(***************************************************************************)
(* translate_words, src/app.py:514-527, one action per step of a thread.   *)
(***************************************************************************)
Running(t) == { i \in 1..Len(threads[t].status) : threads[t].status[i] = "running" }

\* executor.submit for every line, src/app.py:518: the executor starts a
\* worker per submitted line up to max_workers; the other lines wait
Submitted(status) ==
    [ i \in 1..Len(status) |-> IF i <= max_workers THEN "running" ELSE "queued" ]

\* a worker that has finished line i takes the next waiting line
AfterFinish(status, i) ==
    [ j \in 1..Len(status) |->
        IF j = i THEN "done"
        ELSE IF /\ status[j] = "queued"
                /\ \A k \in 1..(j - 1) : status[k] # "queued"
             THEN "running"
             ELSE status[j] ]

AllDone(t) == \A i \in 1..Len(threads[t].status) : threads[t].status[i] = "done"

\* translator.translate(song_name), src/app.py:516: it returns, and the lines
\* are submitted to the executor (src/app.py:518), or it raises and the
\* thread ends with the exception
TranslateTitle(t, ok) ==
    /\ threads[t].pc = "title"
    /\ threads' = [ threads EXCEPT ![t] =
                      IF ok THEN [ @ EXCEPT !.pc = "pool",
                                            !.status = Submitted(@) ]
                            ELSE Idle ]
    /\ UNCHANGED << gui, cache_file, tracker, lyrics_cache, persisted >>

\* translate_line returns for line i (its translate call returned or
\* raised); as_completed yields the future, src/app.py:519
FinishLine(t, i, ok) ==
    /\ threads[t].pc = "pool"
    /\ i \in Running(t)
    /\ threads' = [ threads EXCEPT
                      ![t].status = AfterFinish(@, i),
                      ![t].results = Append(@,
                          translate_line(LyricsOf(threads[t].song_id)[i], ok)) ]
    /\ UNCHANGED << gui, cache_file, tracker, lyrics_cache, persisted >>

\* self.lyrics_cache[song_id] = translated_lyrics, src/app.py:520
CacheInsert(t) ==
    /\ threads[t].pc = "pool"
    /\ AllDone(t)
    /\ lyrics_cache' = CacheSet(lyrics_cache, threads[t].song_id, threads[t].results)
    /\ threads' = [ threads EXCEPT ![t].pc = "check" ]
    /\ UNCHANGED << gui, cache_file, tracker, persisted >>

\* if len(self.lyrics_cache) > MAX_CACHE_SIZE, src/app.py:522
CheckSize(t) ==
    /\ threads[t].pc = "check"
    /\ threads' = [ threads EXCEPT ![t].pc =
                      IF NeedsEviction(lyrics_cache) THEN "iter" ELSE "save" ]
    /\ UNCHANGED << gui, cache_file, tracker, lyrics_cache, persisted >>

\* next(iter(self.lyrics_cache)), src/app.py:523; StopIteration ends the
\* thread when the cache is empty
ReadOldest(t) ==
    /\ threads[t].pc = "iter"
    /\ threads' = [ threads EXCEPT ![t] =
                      IF Len(lyrics_cache) = 0
                          THEN Idle
                          ELSE [ @ EXCEPT !.pc = "pop", !.key = FirstKey(lyrics_cache) ] ]
    /\ UNCHANGED << gui, cache_file, tracker, lyrics_cache, persisted >>

\* self.lyrics_cache.pop(key), src/app.py:523; KeyError ends the thread when
\* the key is no longer there
PopOldest(t) ==
    /\ threads[t].pc = "pop"
    /\ IF threads[t].key \in CacheKeys(lyrics_cache)
          THEN /\ lyrics_cache' = CachePop(lyrics_cache, threads[t].key)
               /\ threads' = [ threads EXCEPT ![t].pc = "save", ![t].key = NoSong ]
          ELSE /\ lyrics_cache' = lyrics_cache
               /\ threads' = [ threads EXCEPT ![t] = Idle ]
    /\ UNCHANGED << gui, cache_file, tracker, persisted >>

\* self.save_cache(), src/app.py:525 and 431-433
SaveCache(t) ==
    /\ threads[t].pc = "save"
    /\ persisted' = KeySeq(lyrics_cache)
    /\ threads' = [ threads EXCEPT ![t].pc = "callback" ]
    /\ UNCHANGED << gui, cache_file, tracker, lyrics_cache >>

\* callback(translated_lyrics), src/app.py:526: update_translations runs on
\* the translation thread; then the thread ends (src/app.py:527)
Callback(t) ==
    /\ threads[t].pc = "callback"
    /\ tree' = update_translations(tree, threads[t].results)
    /\ threads' = [ threads EXCEPT ![t] = Idle ]
    /\ UNCHANGED << gui, cache_file, current_song_id, selection, position, pollScheduled, unavailable,
                    lyrics_cache, persisted >>

\* the steps of a thread after its translate calls
StoreSteps(t) ==
    \/ CacheInsert(t)
    \/ CheckSize(t)
    \/ ReadOldest(t)
    \/ PopOldest(t)
    \/ SaveCache(t)
    \/ Callback(t)

translate_words(t) ==
    \/ \E ok \in BOOLEAN : TranslateTitle(t, ok)
    \/ \E i \in DOMAIN threads[t].status, ok \in BOOLEAN : FinishLine(t, i, ok)
    \/ StoreSteps(t)

Next ==
    \/ update_display
    \/ \E t \in SoloSlots : translate_words(t)

Spec == Init /\ [][Next]_vars

\* A session with reliable collaborators over LibraryTracks: every query
\* and every translate call returns, and the track does not change within a
\* tick.
NextLibrary ==
    \/ \E song_id \in LibraryTracks, current_position \in Positions :
         \/ TickSameSong(song_id, current_position)
         \/ TickLyricsCached(song_id, current_position, song_id)
         \/ TickLyricsTranslate(song_id, current_position, song_id, Slots)
    \/ \E t \in Slots :
         \/ TranslateTitle(t, TRUE)
         \/ \E i \in DOMAIN threads[t].status : FinishLine(t, i, TRUE)
         \/ StoreSteps(t)

SpecLibrary == Init /\ [][NextLibrary]_vars

\* the threads between their insertion into the cache and the end of their
\* eviction, src/app.py:520-523
InPut == { t \in Slots : threads[t].pc \in {"check", "iter", "pop"} }

\* The same session with the cache insertions one after another: no
\* thread inserts while another is between its insertion and its eviction.
OneAtATime == Cardinality(InPut) <= 1

NextSequential == NextLibrary /\ OneAtATime'

SpecSequential == Init /\ [][NextSequential]_vars

\* progress_ms values reported in a session over PoolTracks
PoolPositions == {1200}

\* A session with reliable collaborators over PoolTracks, in which every
\* track change is to a track whose translation is not stored yet.  The two
\* tracks fit the cache, so that no eviction takes place.
NextPool ==
    \/ \E song_id \in PoolTracks, current_position \in PoolPositions :
         \/ TickSameSong(song_id, current_position)
         \/ TickLyricsTranslate(song_id, current_position, song_id, Slots)
    \/ \E t \in Slots :
         \/ TranslateTitle(t, TRUE)
         \/ \E i \in DOMAIN threads[t].status : FinishLine(t, i, TRUE)
         \/ CacheInsert(t)
         \/ CheckSize(t)
         \/ SaveCache(t)
         \/ Callback(t)

SpecPool == Init /\ [][NextPool]_vars

(***************************************************************************)
(* Startup: setup_gui, src/app.py:64-76, the Connect button of the login   *)
(* dialog (save_cookie, src/app.py:184-224) and initialize_main_gui,       *)
(* src/app.py:247-429.                                                     *)
(***************************************************************************)
\* the keys of the dict an earlier session may have pickled in CACHE_FILE
StoredKeySeqs == { << >>, << 2 >>, << 2, 3 >> }

\* the value an earlier session stored for a track
StoredValue(id) ==
    [ i \in 1..Len(LyricsOf(id)) |-> translate_line(LyricsOf(id)[i], TRUE) ]

\* pickle.load(f) on a readable CACHE_FILE, src/app.py:420-421
LoadCache(keys) ==
    [ i \in 1..Len(keys) |-> [ id |-> keys[i], value |-> StoredValue(keys[i]) ] ]

\* initialize_main_gui, src/app.py:247-429, called from a try block
\* (src/app.py:68-74 and 187-224): with no CACHE_FILE the cache is {}
\* (src/app.py:422-423), with a readable one it is the pickled dict, and the
\* poll loop is started (src/app.py:426); with an unreadable one pickle.load
\* raises (src/app.py:421), the caller's except shows an error box, and
\* setup_gui opens the login dialog (src/app.py:73-74)
initialize_main_gui ==
    IF cache_file = "corrupt"
        THEN /\ gui' = IF gui = "auth" THEN "login" ELSE "stalled"
             /\ UNCHANGED << current_song_id, tree, selection, position,
                             lyrics_cache, persisted, pollScheduled, threads,
                             unavailable, cache_file >>
        ELSE /\ gui' = "main"
             /\ current_song_id' = NoSong
             /\ lyrics_cache' = LoadCache(persisted)
             /\ pollScheduled' = TRUE
             /\ UNCHANGED << tree, selection, position, persisted, threads,
                             unavailable, cache_file >>

\* setup_gui, src/app.py:64-76: sp_dc is whether CONFIG_FILE holds a cookie,
\* auth_ok whether Spotify(sp_dc) and the test query return
setup_gui(sp_dc, auth_ok) ==
    /\ gui = "auth"
    /\ IF sp_dc /\ auth_ok
          THEN initialize_main_gui
          ELSE /\ gui' = "login"
               /\ UNCHANGED << current_song_id, tree, selection, position,
                               lyrics_cache, persisted, pollScheduled, threads,
                               unavailable, cache_file >>

\* save_cookie, src/app.py:184-224: the cookie entered in the login dialog
\* is verified; then the dialog is destroyed and initialize_main_gui is
\* called (src/app.py:211-212); a cookie that is refused leaves the dialog
\* open
save_cookie(auth_ok) ==
    /\ gui = "login"
    /\ IF auth_ok
          THEN initialize_main_gui
          ELSE UNCHANGED vars

\* the state when setup_gui starts, for every CACHE_FILE
InitStartup ==
    /\ gui = "auth"
    /\ cache_file \in { "missing", "corrupt", "dict" }
    /\ persisted \in IF cache_file = "dict" THEN StoredKeySeqs ELSE { << >> }
    /\ current_song_id = NoSong
    /\ tree = << >>
    /\ selection = 0
    /\ position = 0
    /\ lyrics_cache = << >>
    /\ pollScheduled = FALSE
    /\ threads = [ t \in Slots |-> Idle ]
    /\ unavailable = {}

\* the application from its start, followed by a session with reliable
\* collaborators
NextStartup ==
    \/ \E sp_dc \in BOOLEAN, auth_ok \in BOOLEAN : setup_gui(sp_dc, auth_ok)
    \/ \E auth_ok \in BOOLEAN : save_cookie(auth_ok)
    \/ NextSequential

SpecStartup == InitStartup /\ [][NextStartup]_vars

(***************************************************************************)
(* Properties.                                                             *)
(***************************************************************************)
\* the rows show the lines fetched for track id (Time and Original Lyrics
\* columns)
Shows(rows, id) ==
    /\ LyricsOf(id) # << >>
    /\ Len(rows) = Len(LyricsOf(id))
    /\ \A i \in 1..Len(rows) :
          /\ rows[i].time = ms_to_min_sec(LyricsOf(id)[i].startTimeMs)
          /\ rows[i].words = LyricsOf(id)[i].words

\* a translated sequence lists the lines of track id in fetched order
InFetchedOrder(translated_lyrics, id) ==
    /\ Len(translated_lyrics) = Len(LyricsOf(id))
    /\ \A j \in 1..Len(translated_lyrics) :
          /\ translated_lyrics[j].startTimeMs = LyricsOf(id)[j].startTimeMs
          /\ translated_lyrics[j].words = LyricsOf(id)[j].words

\* the threads whose translated_lyrics list is complete (src/app.py:519 done)
Translated == { t \in Slots : threads[t].pc \in {"check", "iter", "pop", "save", "callback"} }

\* C1: the translated sequence stored in the cache and the one passed to
\* the callback list the lines in the order of the fetched lyric lines, for
\* every completion order of the workers.
C1_ResultInFetchedOrder ==
    /\ \A i \in 1..Len(lyrics_cache) :
          InFetchedOrder(lyrics_cache[i].value, lyrics_cache[i].id)
    /\ \A t \in Translated :
          InFetchedOrder(threads[t].results, threads[t].song_id)

\* C2: the completion callback of a batch for a track other than the
\* tracker's current track changes no translated-text cell of the displayed
\* lines of the current track.
C2_StaleResultNotApplied ==
    [][ \A t \in Slots :
          ( /\ Callback(t)
            /\ threads[t].song_id # current_song_id
            /\ Shows(tree, current_song_id) )
          => \A i \in 1..Len(tree) : tree'[i].translated = tree[i].translated ]_vars

\* C3: in every reachable state the cache holds at most MAX_CACHE_SIZE
\* entries.
C3_CacheWithinCapacity == Len(lyrics_cache) <= MAX_CACHE_SIZE

\* C4: with the insertions one after another, a new key is appended after
\* the keys present, an eviction happens exactly when the cache then holds
\* MAX_CACHE_SIZE + 1 entries, and it removes the one entry that was inserted
\* first among the keys present, leaving MAX_CACHE_SIZE entries.
C4_FifoEviction ==
    [][ \A t \in Slots :
          /\ ( CacheInsert(t) /\ threads[t].song_id \notin CacheKeys(lyrics_cache) )
                => KeySeq(lyrics_cache') =
                     Append(KeySeq(lyrics_cache), threads[t].song_id)
          /\ CheckSize(t)
                => /\ Len(lyrics_cache) <= MAX_CACHE_SIZE + 1
                   /\ (threads'[t].pc = "iter")
                        <=> (Len(lyrics_cache) = MAX_CACHE_SIZE + 1)
          /\ ReadOldest(t)
                => /\ threads'[t].pc = "pop"
                   /\ threads'[t].key = lyrics_cache[1].id
          /\ PopOldest(t)
                => /\ threads'[t].pc = "save"
                   /\ lyrics_cache' = Tail(lyrics_cache)
                   /\ Len(lyrics_cache') = MAX_CACHE_SIZE ]_vars

\* C4 witness: MAX_CACHE_SIZE + 1 distinct ids were inserted from the empty
\* cache: the store saved before the last insertion holds the first
\* MAX_CACHE_SIZE of them, and the cache now holds all but the first.
C4_EvictedFirstInserted ==
    \E t \in Slots :
        /\ threads[t].pc = "save"
        /\ Len(persisted) = MAX_CACHE_SIZE
        /\ threads[t].song_id \notin SeqToSet(persisted)
        /\ KeySeq(lyrics_cache) = Append(Tail(persisted), threads[t].song_id)

\* C5: with the insertions one after another, storing a result for an id
\* that is already a key replaces its value, leaves the order of the keys
\* and every other value as they are, and leads to no eviction.
C5_OverwriteKeepsOrder ==
    [][ \A t \in Slots :
          /\ ( CacheInsert(t) /\ threads[t].song_id \in CacheKeys(lyrics_cache) )
                => /\ KeySeq(lyrics_cache') = KeySeq(lyrics_cache)
                   /\ \A i \in 1..Len(lyrics_cache) :
                         lyrics_cache'[i].value =
                            IF lyrics_cache[i].id = threads[t].song_id
                                THEN threads[t].results
                                ELSE lyrics_cache[i].value
                   /\ ~NeedsEviction(lyrics_cache')
          /\ ( CheckSize(t) /\ threads'[t].pc = "iter" )
                => /\ Len(lyrics_cache) = MAX_CACHE_SIZE + 1
                   /\ lyrics_cache[Len(lyrics_cache)].id = threads[t].song_id ]_vars

\* C5 witness: a thread has just overwritten the oldest key of a full cache
\* of at least two entries.
C5_OverwroteOldest ==
    \E t \in Slots :
        /\ threads[t].pc = "check"
        /\ Len(lyrics_cache) = MAX_CACHE_SIZE
        /\ Len(lyrics_cache) >= 2
        /\ FirstKey(lyrics_cache) = threads[t].song_id
        /\ CacheGet(lyrics_cache, threads[t].song_id) = threads[t].results

\* the line update_current_lyric has to select at position P among the
\* lines of track id: the last one whose offset is <= P, 0 if there is none
LastLineAtOrBefore(id, P) ==
    Max({0} \cup { i \in 1..Len(LyricsOf(id)) : LyricsOf(id)[i].startTimeMs <= P })

\* a tick that ends with update_current_lyric(P) on the lines fetched for
\* track id
ResolvesAt(id, P) ==
    \E song_id \in Tracks :
        \/ TickSameSong(song_id, P) /\ Shows(tree, id)
        \/ TickLyricsCached(song_id, P, id)
        \/ TickLyricsTranslate(song_id, P, id, SoloSlots)

\* C6: at a position that some line's offset has reached,
\* update_current_lyric selects the last line whose offset is <= P.
C6_SelectsLastLineAtOrBefore ==
    [][ \A id \in Tracks, P \in Positions :
          ( ResolvesAt(id, P) /\ LastLineAtOrBefore(id, P) # 0 )
            => selection' = LastLineAtOrBefore(id, P) ]_vars

\* C7: after a tick at a position before the offset of the first line no
\* line is selected.
C7_NoLineBeforeFirstOffset ==
    [][ \A id \in Tracks, P \in Positions :
          ( ResolvesAt(id, P) /\ P < LyricsOf(id)[1].startTimeMs )
            => selection' = 0 ]_vars

\* C8: every translate_line call adds to the batch result one entry that
\* carries the offset and text of its own line and, as translated text, the
\* translator's output for that text, or the text itself when the call
\* failed; a complete batch result holds exactly one entry per input line.
C8_PerLineFallback ==
    /\ [][ \A t \in SoloSlots : \A i \in DOMAIN threads[t].status, ok \in BOOLEAN :
             FinishLine(t, i, ok)
               => /\ Len(threads'[t].results) = Len(threads[t].results) + 1
                  /\ SubSeq(threads'[t].results, 1, Len(threads[t].results))
                        = threads[t].results
                  /\ LET e    == threads'[t].results[Len(threads'[t].results)]
                         line == LyricsOf(threads[t].song_id)[i]
                     IN  /\ e.startTimeMs = line.startTimeMs
                         /\ e.words = line.words
                         /\ e.translated =
                              IF ok THEN Translate(line.words) ELSE line.words ]_vars
    /\ [](\A t \in Translated :
             /\ Len(threads[t].results) = Len(LyricsOf(threads[t].song_id))
             /\ \A i \in 1..Len(LyricsOf(threads[t].song_id)) :
                   Cardinality({ j \in 1..Len(threads[t].results) :
                       /\ threads[t].results[j].startTimeMs =
                             LyricsOf(threads[t].song_id)[i].startTimeMs
                       /\ threads[t].results[j].words =
                             LyricsOf(threads[t].song_id)[i].words }) = 1)

\* C8 witness: a complete batch result in which one line fell back to its
\* original text and another line is translated.
C8_OneFailedOneTranslated ==
    \E t \in Translated :
        \E j, k \in 1..Len(threads[t].results) :
            /\ threads[t].results[j].translated = threads[t].results[j].words
            /\ threads[t].results[k].translated =
                  Translate(threads[t].results[k].words)

\* C9: once get_lyrics has returned no lyrics for a track id, no later tick
\* for that track queries the lyrics source for it again.
C9_UnavailableNotQueriedAgain ==
    [][ \A id \in unavailable, P \in Positions : ~TickNoLyrics(id, P, id) ]_vars

\* C10: every execution of update_display ends with the next tick
\* scheduled.
C10_PollAlwaysScheduled == pollScheduled

\* C11: with CACHE_FILE missing or unreadable, startup with a valid cookie
\* ends with an empty cache, the main window initialised and the poll loop
\* started.
C11_StartupSurvivesBadStore ==
    [][ ( /\ cache_file \in { "missing", "corrupt" }
          /\ \/ setup_gui(TRUE, TRUE)
             \/ save_cookie(TRUE) )
        => /\ gui' = "main"
           /\ lyrics_cache' = << >>
           /\ pollScheduled' ]_vars

\* C12: a tick whose lyrics response holds no lines, or holds lines but no
\* language, leaves exactly the placeholder row displayed, starts no
\* translation thread, and ends with the next tick scheduled.
C12_BadResponseIsUnavailable ==
    [][ \A song_id \in Tracks, P \in Positions :
          ( \/ \E id2 \in Tracks : TickNoLyrics(song_id, P, id2)
            \/ TickLyricsMalformed(song_id, P) )
          => /\ tree' = PlaceholderRows
             /\ threads' = threads
             /\ pollScheduled' ]_vars

\* a translated sequence holds each line fetched for track id exactly once,
\* with its offset and its original text, and nothing else
SameLines(translated_lyrics, id) ==
    /\ Len(translated_lyrics) = Len(LyricsOf(id))
    /\ \A i \in 1..Len(LyricsOf(id)) :
          Cardinality({ j \in 1..Len(translated_lyrics) :
              /\ translated_lyrics[j].startTimeMs = LyricsOf(id)[i].startTimeMs
              /\ translated_lyrics[j].words = LyricsOf(id)[i].words }) = 1

\* C13: a batch stores its result under the track id it was started for,
\* whatever track the tracker is on, and every cache entry holds the lines
\* fetched for its own key.
C13_StoredUnderOwnTrack ==
    /\ [][ \A t \in Slots :
             CacheInsert(t)
               => /\ threads[t].song_id \in CacheKeys(lyrics_cache')
                  /\ CacheGet(lyrics_cache', threads[t].song_id) = threads[t].results
                  /\ \A i \in 1..Len(lyrics_cache) :
                        lyrics_cache[i].id # threads[t].song_id
                          => lyrics_cache'[i] = lyrics_cache[i] ]_vars
    /\ [](\A i \in 1..Len(lyrics_cache) :
             SameLines(lyrics_cache[i].value, lyrics_cache[i].id))

\* C13 witness: a batch has just stored its result while the tracker is on
\* another track.
C13_StoredAfterTrackerMoved ==
    \E t \in Slots :
        /\ threads[t].pc = "check"
        /\ current_song_id # NoSong
        /\ threads[t].song_id # current_song_id
        /\ threads[t].song_id \in CacheKeys(lyrics_cache)
        /\ CacheGet(lyrics_cache, threads[t].song_id) = threads[t].results

\* the batches in progress for the displayed track
InProgress ==
    { t \in Slots : /\ threads[t].pc \in { "title", "pool" }
                    /\ threads[t].song_id = current_song_id }

\* C14: the tick that starts a batch ends with no translate call made and
\* the lines displayed with empty translated text; while the batch is in
\* progress a tick of the same track is possible at every position, and it
\* selects among the displayed lines.
C14_TickDoesNotWaitForBatch ==
    /\ [][ \A song_id \in LibraryTracks, P \in Positions :
             TickLyricsTranslate(song_id, P, song_id, Slots)
               => /\ \E t \in Slots :
                        /\ threads[t].pc = "idle"
                        /\ threads'[t].pc = "title"
                        /\ threads'[t].results = << >>
                        /\ \A i \in 1..Len(threads'[t].status) :
                              threads'[t].status[i] = "new"
                  /\ \A i \in 1..Len(tree') : tree'[i].translated = EmptyText
                  /\ pollScheduled' ]_vars
    /\ [][ \A P \in Positions :
             ( InProgress # {} /\ TickSameSong(current_song_id, P)
               /\ LastIndex(tree, P) # 0 )
               => selection' = LastIndex(tree, P) ]_vars
    /\ [](InProgress # {}
            => \A P \in Positions : ENABLED TickSameSong(current_song_id, P))

\* C14 witness: track 1 was displayed by a tick at 1200 ms, a later tick at
\* 500 ms has run, and the batch of track 1 is still in progress with one
\* of its two lines translated and no translation displayed.
C14_TickedDuringBatch ==
    /\ current_song_id = 1
    /\ position = 500
    /\ selection = 2
    /\ \A i \in 1..Len(tree) : tree[i].translated = EmptyText
    /\ \E t \in InProgress : Len(threads[t].results) = 1

\* the translated texts a translated sequence holds
TranslationsIn(translated_lyrics) ==
    { translated_lyrics[j].translated : j \in 1..Len(translated_lyrics) }

\* C15: a tick that changes to a track whose id is a key of the cache
\* starts no thread and makes no translate call, leaves the cache and the
\* saved store as they are, and ends with the track's lines displayed,
\* each with a translated text taken from the cached value.
C15_CacheHitShortCircuit ==
    [][ \A id \in LibraryTracks :
          ( /\ current_song_id' # current_song_id
            /\ current_song_id' = id
            /\ id \in CacheKeys(lyrics_cache) )
          => /\ threads' = threads
             /\ lyrics_cache' = lyrics_cache
             /\ persisted' = persisted
             /\ Shows(tree', id)
             /\ \E k \in 1..Len(lyrics_cache) :
                   /\ lyrics_cache[k].id = id
                   /\ \A i \in 1..Len(tree') :
                         tree'[i].translated \in TranslationsIn(lyrics_cache[k].value) ]_vars

\* C15 witness: track 2 is displayed translated from the cache: its own
\* thread has ended, and the tracker came back to it from track 3, whose
\* batch has not made a call yet.
C15_ShownFromCache ==
    /\ current_song_id = 2
    /\ 2 \in CacheKeys(lyrics_cache)
    /\ Shows(tree, 2)
    /\ \A i \in 1..Len(tree) : tree[i].translated # EmptyText
    /\ \A t \in Slots : threads[t].song_id # 2
    /\ \E t \in Slots : threads[t].song_id = 3 /\ threads[t].pc = "title"

\* the threads inside the insert / evict / save section of translate_words,
\* src/app.py:520-525
InStoreSection == { t \in Slots : threads[t].pc \in { "check", "iter", "pop", "save" } }

\* C16: at most one translation thread is inside the insert / evict / save
\* section of translate_words.
C16_StoreSectionExclusive == Cardinality(InStoreSection) <= 1

\* C17: no step of a translation thread changes a displayed row.
C17_TreeWrittenByTrackerOnly ==
    [][ \A t \in Slots : translate_words(t) => tree' = tree ]_vars

\* the remote translate calls a thread has in flight: the call for the
\* song name (src/app.py:516) or the calls of its running workers
\* (src/app.py:518-519)
CallsInFlight(t) ==
    IF threads[t].pc = "title" THEN 1
    ELSE IF threads[t].pc = "pool" THEN Cardinality(Running(t))
    ELSE 0

RECURSIVE TotalInFlight(_)
TotalInFlight(S) ==
    IF S = {} THEN 0
    ELSE LET t == CHOOSE x \in S : TRUE
         IN  CallsInFlight(t) + TotalInFlight(S \ {t})

\* C18: at most max_workers remote translate calls are in flight.
C18_CallsWithinPoolSize == TotalInFlight(Slots) <= max_workers

\* C19: a batch that was started ends only after it has stored its result,
\* saved the cache and invoked the callback: a translation thread ends from
\* its callback step, with a result for every line.
C19_BatchEndsAfterCallback ==
    [][ \A t \in Slots :
          ( threads[t].pc # "idle" /\ threads'[t].pc = "idle" )
            => /\ threads[t].pc = "callback"
               /\ Len(threads[t].results) = Len(LyricsOf(threads[t].song_id)) ]_vars

\* every row shows the translation that translated_lyrics holds for the
\* line of track id at the row's place
RowsShowOwnTranslation(rows, translated_lyrics, id) ==
    \A i \in 1..Len(rows) :
        \E j \in 1..Len(translated_lyrics) :
            /\ translated_lyrics[j].startTimeMs = LyricsOf(id)[i].startTimeMs
            /\ translated_lyrics[j].words = LyricsOf(id)[i].words
            /\ rows[i].translated = translated_lyrics[j].translated

\* C20: after update_translations has applied a result of the displayed
\* track, from a batch that has just finished or from the cache, every row
\* shows the translation the result holds for that row's own line.
C20_EachRowItsOwnTranslation ==
    [][ /\ \A t \in Slots :
             ( /\ Callback(t)
               /\ threads[t].song_id = current_song_id
               /\ Shows(tree, current_song_id) )
             => RowsShowOwnTranslation(tree', threads[t].results, current_song_id)
        /\ \A song_id \in Tracks, P \in Positions, id2 \in Tracks :
             TickLyricsCached(song_id, P, id2)
             => RowsShowOwnTranslation(tree', CacheGet(lyrics_cache, id2), id2) ]_vars

\* the rows are those update_lyrics displays for track id: its fetched
\* lines, or the placeholder row when the lyrics source holds none
DisplaysTrack(rows, id) ==
    IF LyricsOf(id) # << >>
        THEN Shows(rows, id)
        ELSE /\ Len(rows) = 1
             /\ rows[1].time = PlaceholderRows[1].time
             /\ rows[1].words = PlaceholderRows[1].words

\* a tick with a track playing that update_display runs to its end
CompletedTick ==
    \E song_id \in Tracks, P \in Positions :
        \/ TickSameSong(song_id, P)
        \/ \E id2 \in Tracks :
             \/ TickNoLyrics(song_id, P, id2)
             \/ TickLyricsCached(song_id, P, id2)
             \/ TickLyricsTranslate(song_id, P, id2, SoloSlots)

\* C21: at the end of a tick with a track playing, the rows displayed are
\* those of the track recorded as current_song_id.
C21_DisplayMatchesCurrentSong ==
    [][ CompletedTick => DisplaysTrack(tree', current_song_id') ]_vars

====
